---- MODULE Spec2Model ----
(***************************************************************************)
(* The synchronous Optional hierarchy of src/Entity/EntitySerializer.ts    *)
(* (Optional, PresentOptional, AbsentOptional) as a state machine.         *)
(*                                                                         *)
(* A client holds one Optional reference, self, and makes one call per     *)
(* step: a static constructor (of, fromJSON, empty) or a method of self.   *)
(* Every call is recorded with its receiver, its argument, its outcome     *)
(* (a returned value or a thrown error) and the callback invocations it    *)
(* made before returning; the two most recent calls are kept (last, prev). *)
(* Objects are immutable, so an Optional is modelled by its class and its  *)
(* held value; "the same Optional" is equality of both.                    *)
(***************************************************************************)
EXTENDS Integers, Sequences, FiniteSets, TLC

\* Number of distinct primitive numbers 1..MaxNum used as payloads.
MaxNum == 2

VARIABLES self, last, prev

vars == <<self, last, prev>>

RECURSIVE Invoke(_, _)

(***************************************************************************)
(* JavaScript values                                                       *)
(***************************************************************************)
Null == [t |-> "null"]

Undefined == [t |-> "undefined"]

Num(n) == [t |-> "number", n |-> n]

Bool(b) == [t |-> "boolean", b |-> b]

\* An Error object: its class and its message.
ErrorObject(class, message) == [t |-> "Error", class |-> class, message |-> message]

\* A settled pending computation and the value it resolves to.
Promise(v) == [t |-> "Promise", value |-> v]

\* new PresentOptional(value): the constructor stores value unchecked.
PresentOptional_new(value) == [t |-> "PresentOptional", value |-> value]

\* new AbsentOptional()
AbsentOptional_new == [t |-> "AbsentOptional"]

\* PresentAsyncOptional.fromPromise(p)
PresentAsyncOptional_fromPromise(p) == [t |-> "PresentAsyncOptional", promise |-> p]

\* new AbsentAsyncOptional()
AbsentAsyncOptional_new == [t |-> "AbsentAsyncOptional"]

\* value instanceof Optional
InstanceOfOptional(v) == v.t \in {"PresentOptional", "AbsentOptional"}

\* value == null (loose equality: null or undefined)
LooseEqualsNull(v) == v.t \in {"null", "undefined"}

\* err instanceof Error
InstanceOfError(v) == v.t = "Error"

\* The truthiness the conditional operator tests.
Truthy(v) ==
  CASE v.t \in {"null", "undefined"} -> FALSE
    [] v.t = "boolean" -> v.b
    [] v.t = "number" -> v.n # 0
    [] OTHER -> TRUE

(***************************************************************************)
(* Outcomes of a call: how it ended, with what, and which callbacks it     *)
(* invoked (in order) before it ended.                                     *)
(***************************************************************************)
Invocation(callback, args) == [callback |-> callback, args |-> args]

Return(v, calls) == [kind |-> "return", value |-> v, calls |-> calls]

Throw(e, calls) == [kind |-> "throw", value |-> e, calls |-> calls]

(***************************************************************************)
(* Optional: static constructors                                           *)
(***************************************************************************)
\* Mutant: the instanceof test is missing, an Optional is wrapped again.
Optional_of_NoInstanceCheck(value) ==
  IF LooseEqualsNull(value)
    THEN AbsentOptional_new
    ELSE PresentOptional_new(value)

\* Mutant: strict comparison with null, undefined is classified present.
Optional_of_StrictNull(value) ==
  IF InstanceOfOptional(value) THEN value
  ELSE IF value.t = "null"
    THEN AbsentOptional_new
    ELSE PresentOptional_new(value)

Optional_of(value) ==
  IF InstanceOfOptional(value) THEN value
  ELSE IF LooseEqualsNull(value)
    THEN AbsentOptional_new
    ELSE PresentOptional_new(value)

\* Mutant: the data is wrapped without classification.
Optional_fromJSON_Unclassified(data) == PresentOptional_new(data)

Optional_fromJSON(data) == Optional_of(data)

Optional_empty == AbsentOptional_new

\* v.orElse(null) on a synchronous Optional, as the continuation of
\* flatMapAsync computes it.
OrElseNull(v) == IF v.t = "PresentOptional" THEN v.value ELSE Null

\* The synchronous Optional an AsyncOptional resolves to when awaited.
AsyncOptional_resolved(a) ==
  IF a.t = "PresentAsyncOptional" THEN Optional_of(a.promise.value) ELSE AbsentOptional_new

\* p.then(v => v.orElse(null)) for p a promise of an Optional or an
\* AsyncOptional: the promise of the unwrapped value.
Then_orElseNull(p) ==
  IF p.t = "Promise"
    THEN Promise(OrElseNull(p.value))
    ELSE Promise(OrElseNull(AsyncOptional_resolved(p)))

(***************************************************************************)
(* PresentOptional                                                         *)
(***************************************************************************)
\* Mutant: the predicate's verdict is inverted.
PresentOptional_filter_Inverted(this, transform) ==
  LET r == Invoke(transform, this.value)
      calls == <<Invocation(transform, <<this.value>>)>>
  IN  IF r.kind = "throw" THEN Throw(r.value, calls)
      ELSE IF Truthy(r.value)
        THEN Return(AbsentOptional_new, calls)
        ELSE Return(PresentOptional_new(this.value), calls)

PresentOptional_filter(this, transform) ==
  LET r == Invoke(transform, this.value)
      calls == <<Invocation(transform, <<this.value>>)>>
  IN  IF r.kind = "throw" THEN Throw(r.value, calls)
      ELSE IF Truthy(r.value)
        THEN Return(PresentOptional_new(this.value), calls)
        ELSE Return(AbsentOptional_new, calls)

\* Mutant: the result is wrapped without re-classification.
PresentOptional_map_NoClassify(this, transform) ==
  LET r == Invoke(transform, this.value)
      calls == <<Invocation(transform, <<this.value>>)>>
  IN  IF r.kind = "throw" THEN Throw(r.value, calls)
      ELSE Return(PresentOptional_new(r.value), calls)

\* Mutant: the transform is handed the Optional instead of its value.
PresentOptional_map_PassThis(this, transform) ==
  LET r == Invoke(transform, this)
      calls == <<Invocation(transform, <<this>>)>>
  IN  IF r.kind = "throw" THEN Throw(r.value, calls)
      ELSE Return(Optional_of(r.value), calls)

PresentOptional_map(this, transform) ==
  LET r == Invoke(transform, this.value)
      calls == <<Invocation(transform, <<this.value>>)>>
  IN  IF r.kind = "throw" THEN Throw(r.value, calls)
      ELSE Return(Optional_of(r.value), calls)

PresentOptional_mapAsync(this, transform) ==
  LET r == Invoke(transform, this.value)
      calls == <<Invocation(transform, <<this.value>>)>>
  IN  IF r.kind = "throw" THEN Throw(r.value, calls)
      ELSE Return(PresentAsyncOptional_fromPromise(r.value), calls)

\* Mutant: the transform's result is re-wrapped through of's constructor.
PresentOptional_flatMap_Rewrap(this, transform) ==
  LET r == Invoke(transform, this.value)
      calls == <<Invocation(transform, <<this.value>>)>>
  IN  IF r.kind = "throw" THEN Throw(r.value, calls)
      ELSE Return(PresentOptional_new(r.value), calls)

PresentOptional_flatMap(this, transform) ==
  LET r == Invoke(transform, this.value)
      calls == <<Invocation(transform, <<this.value>>)>>
  IN  IF r.kind = "throw" THEN Throw(r.value, calls)
      ELSE Return(r.value, calls)

PresentOptional_flatMapAsync(this, transform) ==
  LET r == Invoke(transform, this.value)
      calls == <<Invocation(transform, <<this.value>>)>>
  IN  IF r.kind = "throw" THEN Throw(r.value, calls)
      ELSE Return(PresentAsyncOptional_fromPromise(Then_orElseNull(r.value)), calls)

PresentOptional_orElse(this, other) == Return(this.value, <<>>)

\* Mutant: the supplier is evaluated although the value is there.
PresentOptional_orGet_Eager(this, supplier) ==
  Return(this.value, <<Invocation(supplier, <<>>)>>)

PresentOptional_orGet(this, supplier) == Return(this.value, <<>>)

PresentOptional_orThrow(this, errThrower) == Return(this.value, <<>>)

PresentOptional_toJSON(this) == Return(this.value, <<>>)

PresentOptional_asJSON(this) == Return(this.value, <<>>)

PresentOptional_isPresent(this) == Return(Bool(TRUE), <<>>)

PresentOptional_isAbsent(this) == Return(Bool(FALSE), <<>>)

PresentOptional_get(this) == Return(this.value, <<>>)

(***************************************************************************)
(* AbsentOptional                                                          *)
(***************************************************************************)
\* Mutant: the transform is applied to the missing value.
AbsentOptional_map_Invoking(this, transform) ==
  Return(AbsentOptional_new, <<Invocation(transform, <<Undefined>>)>>)

AbsentOptional_map(this, transform) == Return(AbsentOptional_new, <<>>)

AbsentOptional_mapAsync(this, transform) == Return(AbsentAsyncOptional_new, <<>>)

AbsentOptional_filter(this, transform) == Return(AbsentOptional_new, <<>>)

AbsentOptional_flatMap(this, transform) == Return(AbsentOptional_new, <<>>)

AbsentOptional_flatMapAsync(this, transform) == Return(AbsentAsyncOptional_new, <<>>)

AbsentOptional_orElse(this, other) == Return(other, <<>>)

AbsentOptional_orGet(this, supplier) ==
  LET r == Invoke(supplier, Undefined)
      calls == <<Invocation(supplier, <<>>)>>
  IN  IF r.kind = "throw" THEN Throw(r.value, calls) ELSE Return(r.value, calls)

\* Mutant: whatever the supplier returns is thrown, Error or not.
AbsentOptional_orThrow_NoTypeCheck(this, errThrower) ==
  LET r == Invoke(errThrower, Undefined)
      calls == <<Invocation(errThrower, <<>>)>>
  IN  Throw(r.value, calls)

AbsentOptional_orThrow(this, errThrower) ==
  LET r == Invoke(errThrower, Undefined)
      calls == <<Invocation(errThrower, <<>>)>>
  IN  IF r.kind = "throw" THEN Throw(r.value, calls)
      ELSE IF InstanceOfError(r.value)
        THEN Throw(r.value, calls)
        ELSE Throw(ErrorObject("TypeError",
                     "Optional.orThrow callback did not throw or return an error"), calls)

AbsentOptional_toJSON(this) == Return(Null, <<>>)

AbsentOptional_asJSON(this) == Return(Null, <<>>)

AbsentOptional_isPresent(this) == Return(Bool(FALSE), <<>>)

AbsentOptional_isAbsent(this) == Return(Bool(TRUE), <<>>)

AbsentOptional_get(this) ==
  Throw(ErrorObject("OptionalValueMissingError",
          ".get() was called on an optional that had no value. Add a check before unwrapping."),
        <<>>)

(***************************************************************************)
(* Optional: the abstract methods, dispatched on the receiver's class      *)
(***************************************************************************)
IsPresentOptional(this) == this.t = "PresentOptional"

Optional_isPresent(this) ==
  IF IsPresentOptional(this) THEN PresentOptional_isPresent(this) ELSE AbsentOptional_isPresent(this)

Optional_isAbsent(this) ==
  IF IsPresentOptional(this) THEN PresentOptional_isAbsent(this) ELSE AbsentOptional_isAbsent(this)

Optional_filter(this, predicate) ==
  IF IsPresentOptional(this)
    THEN PresentOptional_filter(this, predicate)
    ELSE AbsentOptional_filter(this, predicate)

Optional_map(this, transform) ==
  IF IsPresentOptional(this)
    THEN PresentOptional_map(this, transform)
    ELSE AbsentOptional_map(this, transform)

Optional_mapAsync(this, transform) ==
  IF IsPresentOptional(this)
    THEN PresentOptional_mapAsync(this, transform)
    ELSE AbsentOptional_mapAsync(this, transform)

Optional_flatMap(this, transform) ==
  IF IsPresentOptional(this)
    THEN PresentOptional_flatMap(this, transform)
    ELSE AbsentOptional_flatMap(this, transform)

Optional_flatMapAsync(this, transform) ==
  IF IsPresentOptional(this)
    THEN PresentOptional_flatMapAsync(this, transform)
    ELSE AbsentOptional_flatMapAsync(this, transform)

Optional_orElse(this, other) ==
  IF IsPresentOptional(this)
    THEN PresentOptional_orElse(this, other)
    ELSE AbsentOptional_orElse(this, other)

Optional_orGet(this, supplier) ==
  IF IsPresentOptional(this)
    THEN PresentOptional_orGet(this, supplier)
    ELSE AbsentOptional_orGet(this, supplier)

Optional_orThrow(this, errThrower) ==
  IF IsPresentOptional(this)
    THEN PresentOptional_orThrow(this, errThrower)
    ELSE AbsentOptional_orThrow(this, errThrower)

Optional_get(this) ==
  IF IsPresentOptional(this) THEN PresentOptional_get(this) ELSE AbsentOptional_get(this)

Optional_toJSON(this) ==
  IF IsPresentOptional(this) THEN PresentOptional_toJSON(this) ELSE AbsentOptional_toJSON(this)

Optional_asJSON(this) ==
  IF IsPresentOptional(this) THEN PresentOptional_asJSON(this) ELSE AbsentOptional_asJSON(this)

(***************************************************************************)
(* Caller-supplied callbacks.  A callback is a descriptor; Invoke gives    *)
(* what a call of it with argument x does: return a value or throw.        *)
(***************************************************************************)
Fn(name) == [fn |-> name]

\* () => c
Const(c) == [fn |-> "const", value |-> c]

\* x => outer(inner(x))
Compose(outer, inner) == [fn |-> "compose", outer |-> outer, inner |-> inner]

\* x => first(x).flatMap(next)
Bind(first, next) == [fn |-> "bind", first |-> first, next |-> next]

\* The successor of a number within 1..MaxNum; any other value unchanged.
NextValue(x) == IF x.t = "number" THEN Num((x.n % MaxNum) + 1) ELSE x

Returned(v) == [kind |-> "return", value |-> v]

Thrown(e) == [kind |-> "throw", value |-> e]

Invoke(cb, x) ==
  CASE cb.fn = "identity" -> Returned(x)
    [] cb.fn = "next" -> Returned(NextValue(x))
    [] cb.fn = "const" -> Returned(cb.value)
    [] cb.fn = "of" -> Returned(Optional_of(x))
    [] cb.fn = "ofNext" -> Returned(Optional_of(NextValue(x)))
    [] cb.fn = "isOne" -> Returned(Bool(x = Num(1)))
    [] cb.fn = "gtOne" -> Returned(Bool(x.t = "number" /\ x.n > 1))
    [] cb.fn = "resolveNext" -> Returned(Promise(NextValue(x)))
    [] cb.fn = "resolveOf" -> Returned(Promise(Optional_of(x)))
    [] cb.fn = "fail" -> Thrown(ErrorObject("Error", "boom"))
    [] cb.fn = "compose" ->
         LET r == Invoke(cb.inner, x)
         IN  IF r.kind = "throw" THEN r ELSE Invoke(cb.outer, r.value)
    [] cb.fn = "bind" ->
         LET r == Invoke(cb.first, x)
         IN  IF r.kind = "throw" THEN r
             ELSE LET s == Optional_flatMap(r.value, cb.next)
                  IN  [kind |-> s.kind, value |-> s.value]

(***************************************************************************)
(* The inputs a client draws                                               *)
(***************************************************************************)
Numbers == {Num(n) : n \in 1..MaxNum}

\* Values that are no Optional.
PlainValues == {Null, Undefined} \cup Numbers

\* The Optionals a client can have built before.
BuiltOptionals == {Optional_empty} \cup {Optional_of(v) : v \in PlainValues}

\* Arguments of Optional.of and Optional.fromJSON.
OfInputs == PlainValues \cup BuiltOptionals

\* (value: T) => X
Transforms ==
  {Fn("identity"), Fn("next"), Fn("of"), Fn("fail"),
   Const(Null), Const(Undefined), Const(Num(1)), Const(Optional_empty)}

\* (value: T) => boolean
Predicates == {Fn("isOne"), Fn("gtOne"), Fn("fail")}

\* (value: T) => Optional<X>
OptionalTransforms ==
  {Fn("of"), Fn("ofNext"), Const(Optional_empty), Const(Optional_of(Num(1))), Fn("fail")}

\* (value: T) => Promise<X>
PromiseTransforms == {Fn("resolveNext"), Fn("fail")}

\* (value: T) => AsyncOptional<X> | Promise<Optional<X>>
AsyncOptionalTransforms == {Fn("resolveOf"), Const(AbsentAsyncOptional_new), Fn("fail")}

\* Fallback values of orElse.
Fallbacks == {Null, Num(1)}

\* () => X
Suppliers == {Const(Num(1)), Const(Null), Fn("fail")}

\* () => Error, and callbacks that break that type.
ErrorSuppliers ==
  {Const(ErrorObject("Error", "e")), Const(Num(1)), Const(Undefined), Fn("fail")}

(***************************************************************************)
(* The client: one call per step                                           *)
(***************************************************************************)
\* The receiver of a static call.
OptionalClass == [t |-> "class Optional"]

NoObject == [t |-> "none"]

NoCall ==
  [op |-> "none", arg |-> Undefined, recv |-> NoObject,
   kind |-> "none", value |-> Undefined, calls |-> <<>>]

\* The calls whose returned Optional the client goes on with.
ChainOps == {"of", "fromJSON", "empty", "map", "filter", "flatMap"}

Record(op, arg, recv, res) ==
  /\ prev' = last
  /\ last' = [op |-> op, arg |-> arg, recv |-> recv,
              kind |-> res.kind, value |-> res.value, calls |-> res.calls]
  /\ self' = IF op \in ChainOps /\ res.kind = "return" THEN res.value ELSE self

HasObject == InstanceOfOptional(self)

Init ==
  /\ self = NoObject
  /\ last = NoCall
  /\ prev = NoCall

Of(v) ==
  /\ v \in OfInputs
  /\ Record("of", v, OptionalClass, Return(Optional_of(v), <<>>))

FromJSON(v) ==
  /\ v \in OfInputs
  /\ Record("fromJSON", v, OptionalClass, Return(Optional_fromJSON(v), <<>>))

Empty ==
  /\ TRUE
  /\ Record("empty", Undefined, OptionalClass, Return(Optional_empty, <<>>))

IsPresent == HasObject /\ Record("isPresent", Undefined, self, Optional_isPresent(self))

IsAbsent == HasObject /\ Record("isAbsent", Undefined, self, Optional_isAbsent(self))

Filter(p) == HasObject /\ Record("filter", p, self, Optional_filter(self, p))

Map(f) == HasObject /\ Record("map", f, self, Optional_map(self, f))

MapAsync(f) == HasObject /\ Record("mapAsync", f, self, Optional_mapAsync(self, f))

FlatMap(f) == HasObject /\ Record("flatMap", f, self, Optional_flatMap(self, f))

FlatMapAsync(f) == HasObject /\ Record("flatMapAsync", f, self, Optional_flatMapAsync(self, f))

OrElse(x) == HasObject /\ Record("orElse", x, self, Optional_orElse(self, x))

OrGet(s) == HasObject /\ Record("orGet", s, self, Optional_orGet(self, s))

OrThrow(s) == HasObject /\ Record("orThrow", s, self, Optional_orThrow(self, s))

Get == HasObject /\ Record("get", Undefined, self, Optional_get(self))

ToJSON == HasObject /\ Record("toJSON", Undefined, self, Optional_toJSON(self))

AsJSON == HasObject /\ Record("asJSON", Undefined, self, Optional_asJSON(self))

Next ==
  \/ \E v \in OfInputs : Of(v)
  \/ \E v \in OfInputs : FromJSON(v)
  \/ Empty
  \/ IsPresent
  \/ IsAbsent
  \/ \E p \in Predicates : Filter(p)
  \/ \E f \in Transforms : Map(f)
  \/ \E f \in PromiseTransforms : MapAsync(f)
  \/ \E f \in OptionalTransforms : FlatMap(f)
  \/ \E f \in AsyncOptionalTransforms : FlatMapAsync(f)
  \/ \E x \in Fallbacks : OrElse(x)
  \/ \E s \in Suppliers : OrGet(s)
  \/ \E s \in ErrorSuppliers : OrThrow(s)
  \/ Get
  \/ ToJSON
  \/ AsJSON

Spec == Init /\ [][Next]_vars

(***************************************************************************)
(* Properties                                                              *)
(***************************************************************************)
\* The call before the last returned the Optional the last call was made on.
Chained == prev.kind = "return" /\ last.recv = prev.value

IsAbsentOptional(v) == v.t = "AbsentOptional"

\* The last call ended as the outcome r does (r: kind and value).
EndsLike(r) == last.kind = r.kind /\ last.value = r.value

NeitherReturnsNull(m, f, g) ==
  IsPresentOptional(m) =>
    LET a == Invoke(f, m.value)
    IN  /\ a.kind = "return"
        /\ ~LooseEqualsNull(a.value)
        /\ LET b == Invoke(g, a.value)
           IN  b.kind = "return" => ~LooseEqualsNull(b.value)

\* Where the receiver m holds x: f(x) is no Optional.
ReturnsNoOptional(m, f) ==
  IsPresentOptional(m) =>
    LET a == Invoke(f, m.value)
    IN  a.kind = "return" => ~InstanceOfOptional(a.value)

\* m.map(f).map(g), made by the last two calls, ends as m.map(x => g(f(x))).
MapMapIsMapCompose ==
  LET rhs == Optional_map(prev.recv, Compose(last.arg, prev.arg))
  IN  last.kind = rhs.kind /\ last.value = rhs.value

\* C2 as stated: whenever neither f nor g returns null,
\* Optional.of(v).map(f).map(g) equals Optional.of(v).map(x => g(f(x))).
C2_Original ==
  (prev.op = "map" /\ last.op = "map" /\ Chained
     /\ NeitherReturnsNull(prev.recv, prev.arg, last.arg))
    => MapMapIsMapCompose

\* C2 amended: whenever neither f nor g returns null or undefined and f
\* does not return an Optional, Optional.of(v).map(f).map(g) equals
\* Optional.of(v).map(x => g(f(x))): same presence, same held value.
C2_FunctorLaw ==
  (prev.op = "map" /\ last.op = "map" /\ Chained
     /\ NeitherReturnsNull(prev.recv, prev.arg, last.arg)
     /\ ReturnsNoOptional(prev.recv, prev.arg))
    => MapMapIsMapCompose

\* A present Optional has been mapped twice, and the result is present.
C2_Witness ==
  /\ prev.op = "map" /\ prev.arg = Fn("next") /\ IsPresentOptional(prev.recv)
  /\ last.op = "map" /\ last.arg = Const(Num(1)) /\ Chained
  /\ IsPresentOptional(last.value)

Combinators == {"map", "filter", "flatMap", "mapAsync", "flatMapAsync"}

\* C3: map, filter, flatMap, mapAsync and flatMapAsync on an absent
\* Optional invoke nothing and return an absent result (an absent async
\* result for the two async ones); on a present Optional they invoke the
\* callback exactly once, with the held value, before they return or throw.
C3_InvocationCount ==
  last.op \in Combinators =>
    /\ IsAbsentOptional(last.recv) =>
         /\ last.calls = <<>>
         /\ last.kind = "return"
         /\ last.op \in {"map", "filter", "flatMap"} => last.value.t = "AbsentOptional"
         /\ last.op \in {"mapAsync", "flatMapAsync"} => last.value.t = "AbsentAsyncOptional"
    /\ IsPresentOptional(last.recv) =>
         last.calls = <<Invocation(last.arg, <<last.recv.value>>)>>

\* A filter on a present Optional invoked its predicate once and came out
\* absent; the flatMap that followed on the absent result invoked nothing.
C3_Witness ==
  /\ prev.op = "filter" /\ IsPresentOptional(prev.recv) /\ Len(prev.calls) = 1
  /\ Chained
  /\ last.op = "flatMap" /\ IsAbsentOptional(last.recv)
  /\ last.calls = <<>> /\ last.kind = "return"

\* C4 as stated: on a present Optional holding v, map(f) is present holding
\* f(v) when f(v) is non-null and absent when f(v) is null or undefined.
C4_Original ==
  (last.op = "map" /\ IsPresentOptional(last.recv)) =>
    LET r == Invoke(last.arg, last.recv.value)
    IN  r.kind = "return" =>
          /\ last.kind = "return"
          /\ LooseEqualsNull(r.value) => last.value = [t |-> "AbsentOptional"]
          /\ ~LooseEqualsNull(r.value) =>
               last.value = [t |-> "PresentOptional", value |-> r.value]

\* C4 amended: on a present Optional holding v, map(f) is present holding
\* f(v) when f(v) is non-null and not itself an Optional, is absent when
\* f(v) is null or undefined, and is f(v) itself when f(v) is an Optional;
\* in particular map(() => null) on a present Optional is absent.
C4_MapReclassifies ==
  (last.op = "map" /\ IsPresentOptional(last.recv)) =>
    LET r == Invoke(last.arg, last.recv.value)
    IN  r.kind = "return" =>
          /\ last.kind = "return"
          /\ LooseEqualsNull(r.value) => last.value = [t |-> "AbsentOptional"]
          /\ (~LooseEqualsNull(r.value) /\ ~InstanceOfOptional(r.value)) =>
               last.value = [t |-> "PresentOptional", value |-> r.value]
          /\ InstanceOfOptional(r.value) => last.value = r.value

\* A present Optional has been mapped with () => null and came out absent.
C4_Witness ==
  /\ last.op = "map" /\ IsPresentOptional(last.recv)
  /\ last.arg = Const(Null) /\ last.value = [t |-> "AbsentOptional"]

\* C5: every Optional the client gets from of, fromJSON or empty through
\* any sequence of map, filter and flatMap answers true to exactly one of
\* isPresent() and isAbsent(), and if isPresent() is true get() returns a
\* value that is neither null nor undefined.
C5_PresentNeverNull ==
  HasObject =>
    LET p == Optional_isPresent(self)
        a == Optional_isAbsent(self)
        g == Optional_get(self)
    IN  /\ p.value \in {Bool(TRUE), Bool(FALSE)}
        /\ a.value = Bool(~p.value.b)
        /\ p.value.b => (g.kind = "return" /\ ~LooseEqualsNull(g.value))

\* A present Optional obtained by a filter and then a flatMap.
C5_Witness ==
  /\ prev.op = "filter" /\ last.op = "flatMap" /\ Chained
  /\ last.kind = "return" /\ self = last.value /\ IsPresentOptional(self)

\* C6: of applied to an Optional returns that Optional, class and held
\* value unchanged; so Optional.of(Optional.of(v)) is Optional.of(v) for
\* every v, null, non-null or already an Optional.
C6_Idempotent ==
  last.op = "of" =>
    /\ last.kind = "return"
    /\ InstanceOfOptional(last.arg) => last.value = last.arg
    /\ (prev.op = "of" /\ last.arg = prev.value) => last.value = prev.value

\* Optional.of(Optional.of(1)) has been evaluated.
C6_Witness ==
  /\ prev.op = "of" /\ prev.arg = Num(1)
  /\ last.op = "of" /\ last.arg = prev.value /\ IsPresentOptional(last.value)

\* C7: orThrow on an absent Optional never returns: it invokes the
\* supplier once; an Error the supplier returns is thrown as it is (so
\* () => new Error("e") gives an error with message "e"); anything else
\* the supplier returns gives a TypeError; an error the supplier throws
\* propagates.
C7_OrThrowAbsent ==
  (last.op = "orThrow" /\ IsAbsentOptional(last.recv)) =>
    LET r == Invoke(last.arg, Undefined)
    IN  /\ last.kind = "throw"
        /\ last.calls = <<Invocation(last.arg, <<>>)>>
        /\ (r.kind = "return" /\ InstanceOfError(r.value)) => last.value = r.value
        /\ (r.kind = "return" /\ ~InstanceOfError(r.value)) =>
             (InstanceOfError(last.value) /\ last.value.class = "TypeError")
        /\ r.kind = "throw" => last.value = r.value
        /\ last.arg = Const(ErrorObject("Error", "e")) =>
             (InstanceOfError(last.value) /\ last.value.message = "e")

\* orThrow on an absent Optional, with a supplier that returns a number,
\* has thrown.
C7_Witness ==
  /\ last.op = "orThrow" /\ IsAbsentOptional(last.recv)
  /\ last.arg = Const(Num(1)) /\ last.kind = "throw"

\* C8: on a present Optional orElse, orGet and orThrow return the held
\* value and invoke nothing; on an absent one orElse(x) returns x and
\* invokes nothing, and orGet(supplier) invokes the supplier exactly once
\* and ends as the supplier did.
C8_Fallback ==
  /\ (last.op \in {"orElse", "orGet", "orThrow"} /\ IsPresentOptional(last.recv)) =>
       /\ EndsLike(Returned(last.recv.value))
       /\ last.calls = <<>>
  /\ (last.op = "orElse" /\ IsAbsentOptional(last.recv)) =>
       /\ EndsLike(Returned(last.arg))
       /\ last.calls = <<>>
  /\ (last.op = "orGet" /\ IsAbsentOptional(last.recv)) =>
       /\ EndsLike(Invoke(last.arg, Undefined))
       /\ last.calls = <<Invocation(last.arg, <<>>)>>

\* orGet on an absent Optional has returned its supplier's 1.
C8_Witness ==
  /\ last.op = "orGet" /\ IsAbsentOptional(last.recv)
  /\ last.kind = "return" /\ last.value = Num(1) /\ Len(last.calls) = 1

\* C9: on a present Optional holding v, filter(p) is present holding v if
\* p(v) is true and absent otherwise; on an absent Optional it is absent.
C9_Filter ==
  last.op = "filter" =>
    /\ IsPresentOptional(last.recv) =>
         LET r == Invoke(last.arg, last.recv.value)
         IN  r.kind = "return" =>
               /\ last.kind = "return"
               /\ r.value = Bool(TRUE) =>
                    last.value = [t |-> "PresentOptional", value |-> last.recv.value]
               /\ r.value # Bool(TRUE) => last.value = [t |-> "AbsentOptional"]
    /\ IsAbsentOptional(last.recv) => EndsLike(Returned([t |-> "AbsentOptional"]))

\* Optional.of(1).filter(n => n > 1) came out absent.
C9_Witness ==
  /\ prev.op = "of" /\ prev.arg = Num(1) /\ Chained
  /\ last.op = "filter" /\ last.arg = Fn("gtOne")
  /\ last.value = [t |-> "AbsentOptional"]

\* Right identity: m.flatMap(Optional.of) is m.
RightIdentity ==
  (last.op = "flatMap" /\ last.arg = Fn("of")) => EndsLike(Returned(last.recv))

\* Composition: m.flatMap(f).flatMap(g), made by the last two calls, ends
\* as m.flatMap(x => f(x).flatMap(g)).
Associativity ==
  (prev.op = "flatMap" /\ last.op = "flatMap" /\ Chained) =>
    LET rhs == Optional_flatMap(prev.recv, Bind(prev.arg, last.arg))
    IN  last.kind = rhs.kind /\ last.value = rhs.value

\* f is called with v and returns an Optional.
ReturnsOptional(f, v) ==
  LET r == Invoke(f, v)
  IN  r.kind = "return" /\ InstanceOfOptional(r.value)

\* C10 as stated: Optional.of(v).flatMap(f) is f(v) for every non-null v
\* and Optional-returning f; m.flatMap(Optional.of) is m;
\* m.flatMap(f).flatMap(g) is m.flatMap(x => f(x).flatMap(g)).
C10_Original ==
  /\ (prev.op = "of" /\ ~LooseEqualsNull(prev.arg) /\ last.op = "flatMap" /\ Chained
        /\ ReturnsOptional(last.arg, prev.arg)) =>
       EndsLike(Invoke(last.arg, prev.arg))
  /\ RightIdentity
  /\ Associativity

\* C10 amended: Optional.of(v).flatMap(f) is f(v), returned as it is, for
\* every non-null v that is not itself an Optional and Optional-returning
\* f; m.flatMap(Optional.of) is m; m.flatMap(f).flatMap(g) is
\* m.flatMap(x => f(x).flatMap(g)).
C10_MonadLaws ==
  /\ (prev.op = "of" /\ ~LooseEqualsNull(prev.arg) /\ ~InstanceOfOptional(prev.arg)
        /\ last.op = "flatMap" /\ Chained
        /\ ReturnsOptional(last.arg, prev.arg)) =>
       EndsLike(Invoke(last.arg, prev.arg))
  /\ RightIdentity
  /\ Associativity

\* Two chained flatMaps on a present Optional have given a present one.
C10_Witness ==
  /\ prev.op = "flatMap" /\ prev.arg = Fn("ofNext") /\ IsPresentOptional(prev.recv)
  /\ last.op = "flatMap" /\ last.arg = Fn("ofNext") /\ Chained
  /\ IsPresentOptional(last.value)

====
